---- MODULE Spec2Model ----
(***************************************************************************)
(* Work-Scheduler: the two-phase proctor assignment engine.                *)
(*   ScheduleGenerator (src/src/Schedulegenrator.py) matches proctors to   *)
(*   lab sessions greedily; ScheduleOptimizer (src/src/ScheduleOptimizer.py)*)
(*   re-selects among the proctors the generator listed.                   *)
(* Times of day are counted in half-hours since midnight (09:00 = 18), so  *)
(* every duration is an integer number of half-hours: 2.5 h = 5, 4 h = 8,  *)
(* 15 h = 30. Scores are kept as integers too: the generator's score is    *)
(* held times 10 (tenths of the Python float), which orders exactly as the *)
(* floats do while a proctor lists fewer than 5 availability intervals.    *)
(***************************************************************************)
EXTENDS Integers, Sequences, FiniteSets, TLC

\* ------------------------------------------------------------------ bounds
MaxSessions == 2
MaxAvail == 2
MaxListed == 3
MaxPasses == 2
MaxRows == 2

\* ------------------------------------------------------- program constants
DayUnits == 48
min_shift_duration == 5
max_shift_duration == 8
default_max_weekly_hours == 30
target_proctors == 2
generator_star_factor == 1000
optimizer_limit_three == 2 + 1
optimizer_limit == 2
optimizer_star_factor == 1000
optimizer_hours_base == 30

\* ------------------------------------------------------------ input sets
DayNames == {"Monday", "Friday"}
ProctorNames == <<"Alice", "Bob">>
WeeklyChoices == {6, default_max_weekly_hours}

Slot(s, e) == [start |-> s, end |-> e]

\* 09:00-11:30 (2.5 h), 10:30-14:00 (3.5 h), 09:00-14:00 (5 h),
\* 09:00-11:00 (2 h, too short), 22:00-01:00 (start after end)
MondayLabSlots == {Slot(18, 23), Slot(21, 28), Slot(18, 28), Slot(18, 22), Slot(44, 2)}
FridayLabSlots == {Slot(18, 23)}
LabSlotsOf(day) == IF day = "Monday" THEN MondayLabSlots ELSE FridayLabSlots

\* 09:00-11:30, 10:00-13:00, 00:00-23:30
MondayAvailSlots == {Slot(18, 23), Slot(20, 26), Slot(0, 47)}
FridayAvailSlots == {Slot(0, 47)}
AvailSlotsOf(day) == IF day = "Monday" THEN MondayAvailSlots ELSE FridayAvailSlots

SeqsUpTo(S, n) == UNION {[1..k -> S] : k \in 0..n}

\* the rows of the lab schedule table: Day, StartTime, EndTime
LabRows == UNION {{[Day |-> d, StartTime |-> s.start, EndTime |-> s.end] : s \in LabSlotsOf(d)} : d \in DayNames}
LabTables == SeqsUpTo(LabRows, MaxSessions)

\* a proctor's availability: day -> list of intervals; a day without
\* intervals stands for a day that is not a key of the dict
AvailabilityChoices == {a \in [DayNames -> SeqsUpTo(MondayAvailSlots \cup FridayAvailSlots, MaxAvail)] :
                          /\ \A d \in DayNames : \A i \in 1..Len(a[d]) : a[d][i] \in AvailSlotsOf(d)
                          /\ Len(a["Monday"]) + Len(a["Friday"]) <= MaxAvail}

ProctorRecords(name) == {[Name |-> name, star |-> st, availability |-> a] :
                           st \in BOOLEAN, a \in AvailabilityChoices}
ProctorLists == {<<p1, p2>> : p1 \in ProctorRecords(ProctorNames[1]), p2 \in ProctorRecords(ProctorNames[2])}

\* the inputs of two calls made on one ScheduleGenerator: the proctor dicts
\* carry the max_hours key that _process_proctor_availabilities gives them
\* (1 h and 40 h, the ends of the validated range); Alice is no star and is
\* available all day on both days, Bob is a star
Threads == {1, 2}
MaxHoursChoices == {2, 80}
AllWeek == [d \in DayNames |-> <<Slot(0, 47)>>]
MondayOnly == [d \in DayNames |-> IF d = "Monday" THEN <<Slot(0, 47)>> ELSE <<>>]
ThreadProctorLists ==
    {<<[Name |-> ProctorNames[1], star |-> FALSE, availability |-> AllWeek, max_hours |-> m1],
       [Name |-> ProctorNames[2], star |-> TRUE, availability |-> a2, max_hours |-> m2]>> :
        m1 \in MaxHoursChoices, m2 \in MaxHoursChoices, a2 \in {AllWeek, MondayOnly}}
ThreadLabRows == {[Day |-> d, StartTime |-> 18, EndTime |-> 23] : d \in DayNames}
ThreadLabTables == SeqsUpTo(ThreadLabRows, MaxSessions)

\* --------------------------------------------------------------- helpers
Max2(a, b) == IF a >= b THEN a ELSE b
Min2(a, b) == IF a <= b THEN a ELSE b
NoSlot == [start |-> -1, end |-> -1]
NameSet == {ProctorNames[i] : i \in 1..Len(ProctorNames)}

\* the rows of proctors.csv: a day cell holds its ';'-separated ranges, each
\* "HH:MM-HH:MM" as <<start, end>>, and NaN is an empty cell; Star 2 and
\* MaxHours 0 h are values that _validate_data rejects
NaN == <<>>
MondayCells == {NaN, <<<<18, 23>>, <<20, 26>>>>}
FridayCells == {<<<<0, 47>>>>}
StarValues == {0, 1, 2}
MaxHoursValues == {0, default_max_weekly_hours}
SystemProctorRows == {[Name |-> n, Monday |-> m, Friday |-> f, Star |-> st, MaxHours |-> h] :
                        n \in NameSet, m \in MondayCells, f \in FridayCells,
                        st \in StarValues, h \in MaxHoursValues}
SystemLabTables == SeqsUpTo(LabRows, 1)

\* a dataframe attribute of the system is None until load_data reads a file
None == [none |-> TRUE]
DataFrame(rows) == [rows |-> rows]

\* ---------------------------------------------------------------- TimeSlot
\* timedelta.seconds is the delta modulo one day: a slot whose start is after
\* its end gets 24 h minus the difference
duration_hours(slot) == (slot.end - slot.start) % DayUnits

overlaps_with(self, other) == self.start <= other.end /\ self.end >= other.start

\* mutant: hands back the availability window instead of the common part
get_overlap_whole_window(self, other) ==
    IF ~overlaps_with(self, other) THEN NoSlot ELSE other

get_overlap(self, other) ==
    IF ~overlaps_with(self, other) THEN NoSlot
    ELSE Slot(Max2(self.start, other.start), Min2(self.end, other.end))

\* ------------------------------------------------------------------ heapq
\* the outcome of a step that may raise
Ok(v) == [ok |-> TRUE, val |-> v]
Raised == [ok |-> FALSE, val |-> <<>>]

\* tuple comparison a < b: the first unequal position decides; dicts and
\* TimeSlots support == but not <, which raises TypeError
\* generator entries are (-priority_score, proctor, overlap),
\* optimizer entries are (-priority_score, Name, proctor)
\* mutant: the names compare the other way round
NameLess_reversed(a, b) == a = "Bob" /\ b = "Alice"

NameLess(a, b) == a = "Alice" /\ b = "Bob"

\* mutant: the scores compare the other way round
TupleLt_lowest_first(a, b) ==
    IF a.neg # b.neg THEN (IF a.neg > b.neg THEN "lt" ELSE "ge")
    ELSE IF a.kind = "gen"
         THEN IF a.proctor # b.proctor THEN "err"
              ELSE IF a.overlap # b.overlap THEN "err" ELSE "ge"
         ELSE IF a.Name # b.Name THEN (IF NameLess(a.Name, b.Name) THEN "lt" ELSE "ge")
              ELSE IF a.proctor # b.proctor THEN "err" ELSE "ge"

TupleLt(a, b) ==
    IF a.neg # b.neg THEN (IF a.neg < b.neg THEN "lt" ELSE "ge")
    ELSE IF a.kind = "gen"
         THEN IF a.proctor # b.proctor THEN "err"
              ELSE IF a.overlap # b.overlap THEN "err" ELSE "ge"
         ELSE IF a.Name # b.Name THEN (IF NameLess(a.Name, b.Name) THEN "lt" ELSE "ge")
              ELSE IF a.proctor # b.proctor THEN "err" ELSE "ge"

\* positions are 0-based as in heapq; heap[pos + 1] is the item at pos
RECURSIVE SiftDown(_, _, _)
SiftDown(heap, newitem, pos) ==
    IF pos > 0
    THEN LET parentpos == (pos - 1) \div 2
             parent == heap[parentpos + 1]
             c == TupleLt(newitem, parent)
         IN IF c = "err" THEN Raised
            ELSE IF c = "lt" THEN SiftDown([heap EXCEPT ![pos + 1] = parent], newitem, parentpos)
            ELSE Ok([heap EXCEPT ![pos + 1] = newitem])
    ELSE Ok([heap EXCEPT ![pos + 1] = newitem])

RECURSIVE SiftUp(_, _, _)
SiftUp(heap, newitem, pos) ==
    LET endpos == Len(heap)
        childpos == 2 * pos + 1
        rightpos == childpos + 1
    IN IF childpos < endpos
       THEN LET c == IF rightpos < endpos THEN TupleLt(heap[childpos + 1], heap[rightpos + 1]) ELSE "lt"
                pick == IF c = "lt" THEN childpos ELSE rightpos
            IN IF c = "err" THEN Raised
               ELSE SiftUp([heap EXCEPT ![pos + 1] = heap[pick + 1]], newitem, pick)
       ELSE SiftDown(heap, newitem, pos)

heappush(heap, item) == SiftDown(Append(heap, item), item, Len(heap))

\* returns the popped item and the heap that is left
heappop(heap) ==
    LET lastelt == heap[Len(heap)]
        rest == SubSeq(heap, 1, Len(heap) - 1)
    IN IF rest # <<>>
       THEN LET r == SiftUp(rest, lastelt, 0)
            IN IF r.ok THEN Ok([item |-> heap[1], heap |-> r.val]) ELSE Raised
       ELSE Ok([item |-> lastelt, heap |-> <<>>])

\* ------------------------------------------------- ProctorSchedulingSystem
\* _process_lab_times: group the table rows by day, days in order of first
\* appearance (a dict keeps insertion order), sessions in row order
RECURSIVE process_lab_times(_, _)
process_lab_times(rows, acc) ==
    IF rows = <<>> THEN acc
    ELSE LET row == Head(rows)
             session == Slot(row.StartTime, row.EndTime)
             known == \E i \in 1..Len(acc) : acc[i].day = row.Day
             acc2 == IF known
                     THEN [i \in 1..Len(acc) |->
                             IF acc[i].day = row.Day
                             THEN [acc[i] EXCEPT !.sessions = Append(@, session)]
                             ELSE acc[i]]
                     ELSE Append(acc, [day |-> row.Day, sessions |-> <<session>>])
         IN process_lab_times(Tail(rows), acc2)

\* _validate_star_values and _validate_max_hours (between 1 and 40 hours)
validate_star_values(rows) == \A i \in 1..Len(rows) : rows[i].Star \in {0, 1}
validate_max_hours(rows) == \A i \in 1..Len(rows) : rows[i].MaxHours >= 2 /\ rows[i].MaxHours <= 80
validate_data(rows) == validate_star_values(rows) /\ validate_max_hours(rows)

\* _parse_time_range: the dict of the two ends of a range
parse_time_range(range) == [start |-> range[1], end |-> range[2]]

Cell(row, day) == IF day = "Monday" THEN row.Monday ELSE row.Friday

\* _process_proctor_availabilities: one dict per row with the keys name,
\* star, max_hours and availability
process_proctor_availabilities(rows) ==
    [i \in 1..Len(rows) |->
        [name |-> rows[i].Name,
         star |-> rows[i].Star # 0,
         max_hours |-> rows[i].MaxHours,
         availability |-> [d \in DayNames |->
                              [k \in 1..Len(Cell(rows[i], d)) |->
                                  parse_time_range(Cell(rows[i], d)[k])]]]]

\* ------------------------------------------------------- SchedulePresenter
\* format_schedule: the lines of the text, a line per day, per session and
\* per proctor of a session
ProctorLine(proctor) ==
    [line |-> "proctor", Name |-> proctor.Name,
     label |-> IF proctor.star THEN "Star" ELSE "Regular"]

SessionLines(session) ==
    <<[line |-> "session", start |-> session.lab_time.start, end |-> session.lab_time.end]>>
    \o [i \in 1..Len(session.proctors) |-> ProctorLine(session.proctors[i])]

RECURSIVE DayLines(_)
DayLines(sessions) ==
    IF sessions = <<>> THEN <<>>
    ELSE SessionLines(Head(sessions)) \o DayLines(Tail(sessions))

RECURSIVE format_schedule(_)
format_schedule(sched) ==
    IF sched = <<>> THEN <<>>
    ELSE <<[line |-> "day", day |-> Head(sched).day]>>
         \o DayLines(Head(sched).sessions) \o format_schedule(Tail(sched))

\* ------------------------------------------------------- ScheduleGenerator
\* sorted(lab_sessions, key=start): a stable sort on the start time
RECURSIVE InsertByStart(_, _)
InsertByStart(sorted, x) ==
    IF sorted = <<>> THEN <<x>>
    ELSE IF Head(sorted).start <= x.start
         THEN <<Head(sorted)>> \o InsertByStart(Tail(sorted), x)
         ELSE <<x>> \o sorted

RECURSIVE sorted_by_start(_)
sorted_by_start(sessions) ==
    IF sessions = <<>> THEN <<>>
    ELSE InsertByStart(sorted_by_start(SubSeq(sessions, 1, Len(sessions) - 1)),
                       sessions[Len(sessions)])

initialize_proctor_hours(proctors) ==
    [n \in {proctors[i].Name : i \in 1..Len(proctors)} |-> 0]

\* mutant: the upper shift bound is not tested
is_valid_assignment_no_max(hours, weekly, proctor_name, duration) ==
    LET current_hours == hours[proctor_name]
    IN /\ duration >= min_shift_duration
       /\ current_hours + duration <= weekly

is_valid_assignment(hours, weekly, proctor_name, duration) ==
    LET current_hours == hours[proctor_name]
    IN /\ duration >= min_shift_duration
       /\ duration <= max_shift_duration
       /\ current_hours + duration <= weekly

AvailabilityCount(proctor) ==
    Len(proctor.availability["Monday"]) + Len(proctor.availability["Friday"])

\* mutant: the star bonus goes to the proctors that are not stars
calculate_priority_score_star_inverted(hours, weekly, proctor) ==
    LET star_factor == IF proctor.star THEN 0 ELSE generator_star_factor
        hours_factor == weekly - hours[proctor.Name]
    IN 10 * star_factor + 5 * hours_factor
       + Len(proctor.availability["Monday"]) + Len(proctor.availability["Friday"])

\* ten times the Python score: star_factor + hours_factor + 0.1 * availability_factor
calculate_priority_score(hours, weekly, proctor) ==
    LET star_factor == IF proctor.star THEN generator_star_factor ELSE 0
        hours_factor == weekly - hours[proctor.Name]
        availability_factor == AvailabilityCount(proctor)
    IN 10 * star_factor + 5 * hours_factor + availability_factor

\* the (proctor, availability interval) pairs in the order the two loops of
\* _assign_proctors_to_session visit them
RECURSIVE AvailabilityPairs(_, _)
AvailabilityPairs(proctors, day) ==
    IF proctors = <<>> THEN <<>>
    ELSE LET p == Head(proctors)
         IN [i \in 1..Len(p.availability[day]) |-> [proctor |-> p, avail |-> p.availability[day][i]]]
            \o AvailabilityPairs(Tail(proctors), day)

\* mutant: the weekly ceiling is the max_hours value of the proctor's dict
CandidateEntries_own_max_hours(hours, weekly, lab_slot, proctors, day) ==
    LET pairs == AvailabilityPairs(proctors, day)
        admissible(pr) ==
            LET overlap == get_overlap(lab_slot, pr.avail)
            IN /\ overlap # NoSlot
               /\ is_valid_assignment(hours, pr.proctor.max_hours, pr.proctor.Name,
                                      duration_hours(overlap))
        entry(pr) == [kind |-> "gen",
                      neg |-> 0 - calculate_priority_score(hours, weekly, pr.proctor),
                      proctor |-> pr.proctor,
                      overlap |-> get_overlap(lab_slot, pr.avail)]
        kept == SelectSeq(pairs, admissible)
    IN [i \in 1..Len(kept) |-> entry(kept[i])]

\* the admissible candidates of a session, in push order
CandidateEntries(hours, weekly, lab_slot, proctors, day) ==
    LET pairs == AvailabilityPairs(proctors, day)
        admissible(pr) ==
            LET overlap == get_overlap(lab_slot, pr.avail)
            IN /\ overlap # NoSlot
               /\ is_valid_assignment(hours, weekly, pr.proctor.Name, duration_hours(overlap))
        entry(pr) == [kind |-> "gen",
                      neg |-> 0 - calculate_priority_score(hours, weekly, pr.proctor),
                      proctor |-> pr.proctor,
                      overlap |-> get_overlap(lab_slot, pr.avail)]
        kept == SelectSeq(pairs, admissible)
    IN [i \in 1..Len(kept) |-> entry(kept[i])]

RECURSIVE PushAll(_, _)
PushAll(heap, entries) ==
    IF entries = <<>> THEN Ok(heap)
    ELSE LET r == heappush(heap, Head(entries))
         IN IF r.ok THEN PushAll(r.val, Tail(entries)) ELSE Raised

\* mutant: the accepted overlap is not added to the proctor's weekly hours
RECURSIVE select_best_proctors_hours_not_added(_, _, _)
select_best_proctors_hours_not_added(candidates, selected, hours) ==
    IF candidates # <<>> /\ Len(selected) < target_proctors
    THEN LET r == heappop(candidates)
         IN IF ~r.ok THEN [ok |-> FALSE, selected |-> selected, hours |-> hours]
            ELSE LET proctor == r.val.item.proctor
                     overlap == r.val.item.overlap
                     chosen == [Name |-> proctor.Name, star |-> proctor.star,
                                assigned_time |-> Slot(overlap.start, overlap.end)]
                 IN select_best_proctors_hours_not_added(r.val.heap, Append(selected, chosen), hours)
    ELSE [ok |-> TRUE, selected |-> selected, hours |-> hours]

\* pops up to target_proctors candidates; each pop adds the overlap to the
\* proctor's weekly hours. A raise keeps the hours added so far.
RECURSIVE select_best_proctors(_, _, _)
select_best_proctors(candidates, selected, hours) ==
    IF candidates # <<>> /\ Len(selected) < target_proctors
    THEN LET r == heappop(candidates)
         IN IF ~r.ok THEN [ok |-> FALSE, selected |-> selected, hours |-> hours]
            ELSE LET proctor == r.val.item.proctor
                     overlap == r.val.item.overlap
                     hours2 == [hours EXCEPT ![proctor.Name] = @ + duration_hours(overlap)]
                     chosen == [Name |-> proctor.Name, star |-> proctor.star,
                                assigned_time |-> Slot(overlap.start, overlap.end)]
                 IN select_best_proctors(r.val.heap, Append(selected, chosen), hours2)
    ELSE [ok |-> TRUE, selected |-> selected, hours |-> hours]

assign_proctors_to_session(hours, weekly, lab_slot, proctors, day) ==
    LET pushed == PushAll(<<>>, CandidateEntries(hours, weekly, lab_slot, proctors, day))
    IN IF ~pushed.ok THEN [ok |-> FALSE, selected |-> <<>>, hours |-> hours]
       ELSE select_best_proctors(pushed.val, <<>>, hours)

\* ------------------------------------------------------- ScheduleOptimizer
\* every assignment of the schedule, in the order the three nested loops of
\* _initialize_proctor_stats visit them
RECURSIVE SessionAssignments(_)
SessionAssignments(sessions) ==
    IF sessions = <<>> THEN <<>>
    ELSE Head(sessions).proctors \o SessionAssignments(Tail(sessions))

RECURSIVE ScheduleAssignments(_)
ScheduleAssignments(sched) ==
    IF sched = <<>> THEN <<>>
    ELSE SessionAssignments(Head(sched).sessions) \o ScheduleAssignments(Tail(sched))

RECURSIVE CountAssignments(_, _)
CountAssignments(listed, stats) ==
    IF listed = <<>> THEN stats
    ELSE LET proctor == Head(listed)
             Name == proctor.Name
             fresh == [hours |-> 0, star |-> proctor.star, availability |-> 0]
             had == IF Name \in DOMAIN stats THEN stats[Name] ELSE fresh
             entry == [had EXCEPT !.availability = @ + 1]
         IN CountAssignments(Tail(listed),
               [n \in DOMAIN stats \cup {Name} |-> IF n = Name THEN entry ELSE stats[n]])

initialize_proctor_stats(sched) == CountAssignments(ScheduleAssignments(sched), <<>>)

\* the day names compare as strings
DayLess(a, b) == a = "Friday" /\ b = "Monday"

SortKeyLess(x, y) ==
    \/ DayLess(x.day, y.day)
    \/ x.day = y.day /\ x.session.lab_time.start < y.session.lab_time.start

RECURSIVE InsertByKey(_, _)
InsertByKey(sorted, x) ==
    IF sorted = <<>> THEN <<x>>
    ELSE IF ~SortKeyLess(x, Head(sorted))
         THEN <<Head(sorted)>> \o InsertByKey(Tail(sorted), x)
         ELSE <<x>> \o sorted

RECURSIVE StableSortByKey(_)
StableSortByKey(items) ==
    IF items = <<>> THEN <<>>
    ELSE InsertByKey(StableSortByKey(SubSeq(items, 1, Len(items) - 1)), items[Len(items)])

RECURSIVE DaySessionPairs(_)
DaySessionPairs(sched) ==
    IF sched = <<>> THEN <<>>
    ELSE LET d == Head(sched)
         IN [i \in 1..Len(d.sessions) |-> [day |-> d.day, session |-> d.sessions[i]]]
            \o DaySessionPairs(Tail(sched))

\* mutant: the sessions are left in the order of the input
sort_sessions_input_order(sched) == DaySessionPairs(sched)

sort_sessions(sched) == StableSortByKey(DaySessionPairs(sched))

\* twice the Python score: star_factor + availability_factor + hours_factor
optimizer_priority_score(stats) ==
    LET star_factor == IF stats.star THEN optimizer_star_factor ELSE 0
        availability_factor == stats.availability * 10
        hours_factor == optimizer_hours_base - stats.hours
    IN 2 * star_factor + 2 * availability_factor + hours_factor

\* mutant: the weekly ceiling is not tested
OptimizerEntries_no_ceiling(original_proctors, proctor_stats, session_duration, max_hours) ==
    [i \in 1..Len(original_proctors) |->
        [kind |-> "opt",
         neg |-> 0 - optimizer_priority_score(proctor_stats[original_proctors[i].Name]),
         Name |-> original_proctors[i].Name,
         proctor |-> original_proctors[i]]]

\* mutant: the candidates are all the proctors of the schedule, not the ones
\* the session lists
OptimizerEntries_whole_schedule(original_proctors, proctor_stats, session_duration, max_hours) ==
    LET known(name) == name \in DOMAIN proctor_stats
        names == SelectSeq(ProctorNames, known)
        fits(name) == ~(proctor_stats[name].hours + session_duration > max_hours)
        kept == SelectSeq(names, fits)
    IN [i \in 1..Len(kept) |->
          [kind |-> "opt",
           neg |-> 0 - optimizer_priority_score(proctor_stats[kept[i]]),
           Name |-> kept[i],
           proctor |-> [Name |-> kept[i], star |-> proctor_stats[kept[i]].star,
                        assigned_time |-> Slot(0, session_duration)]]]

OptimizerEntries(original_proctors, proctor_stats, session_duration, max_hours) ==
    LET fits(proctor) == ~(proctor_stats[proctor.Name].hours + session_duration > max_hours)
        kept == SelectSeq(original_proctors, fits)
    IN [i \in 1..Len(kept) |->
          [kind |-> "opt",
           neg |-> 0 - optimizer_priority_score(proctor_stats[kept[i].Name]),
           Name |-> kept[i].Name,
           proctor |-> kept[i]]]

RECURSIVE PopSelected(_, _)
PopSelected(queue, selected) ==
    IF queue # <<>> /\ Len(selected) < optimizer_limit
    THEN LET r == heappop(queue)
         IN IF ~r.ok THEN Raised
            ELSE PopSelected(r.val.heap, Append(selected, r.val.item.proctor))
    ELSE Ok(selected)

\* mutant: the lower shift bound is not tested
find_best_proctors_no_min(session, original_proctors, proctor_stats, max_hours) ==
    LET session_duration == duration_hours(session.lab_time)
    IN IF session_duration > max_shift_duration
       THEN Ok(<<>>)
       ELSE LET pushed == PushAll(<<>>, OptimizerEntries(original_proctors, proctor_stats,
                                                        session_duration, max_hours))
            IN IF ~pushed.ok THEN Raised ELSE PopSelected(pushed.val, <<>>)

\* mutant: the upper shift bound is not tested
find_best_proctors_no_max(session, original_proctors, proctor_stats, max_hours) ==
    LET session_duration == duration_hours(session.lab_time)
    IN IF session_duration < min_shift_duration
       THEN Ok(<<>>)
       ELSE LET pushed == PushAll(<<>>, OptimizerEntries(original_proctors, proctor_stats,
                                                        session_duration, max_hours))
            IN IF ~pushed.ok THEN Raised ELSE PopSelected(pushed.val, <<>>)

find_best_proctors(session, original_proctors, proctor_stats, max_hours) ==
    LET session_duration == duration_hours(session.lab_time)
    IN IF session_duration < min_shift_duration \/ session_duration > max_shift_duration
       THEN Ok(<<>>)
       ELSE LET pushed == PushAll(<<>>, OptimizerEntries(original_proctors, proctor_stats,
                                                        session_duration, max_hours))
            IN IF ~pushed.ok THEN Raised ELSE PopSelected(pushed.val, <<>>)

RECURSIVE update_proctor_hours(_, _)
update_proctor_hours(proctors, proctor_stats) ==
    IF proctors = <<>> THEN proctor_stats
    ELSE LET proctor == Head(proctors)
             duration == duration_hours(proctor.assigned_time)
         IN update_proctor_hours(Tail(proctors),
               [proctor_stats EXCEPT ![proctor.Name].hours = @ + duration])

\* ---------------------------------------- schedules handed to the optimizer
\* a session of a hand-made schedule lists proctors whose assigned_time is
\* the session slot or its last part
AssignedTimesOf(lab) == {lab, Slot(lab.start + 2, lab.end)}
OptLabRows == {r \in LabRows : r.StartTime <= r.EndTime}
ListedChoices(lab, stars) ==
    SeqsUpTo({[Name |-> nm, star |-> stars[nm], assigned_time |-> t] :
                 nm \in NameSet, t \in AssignedTimesOf(lab)}, MaxListed)
SessionRows(stars) ==
    UNION {{[Day |-> r.Day,
             session |-> [lab_time |-> Slot(r.StartTime, r.EndTime), proctors |-> ps]] :
              ps \in ListedChoices(Slot(r.StartTime, r.EndTime), stars)} : r \in OptLabRows}

RECURSIVE TotalListed(_)
TotalListed(rows) ==
    IF rows = <<>> THEN 0 ELSE Len(Head(rows).session.proctors) + TotalListed(Tail(rows))

RECURSIVE GroupByDay(_, _)
GroupByDay(rows, acc) ==
    IF rows = <<>> THEN acc
    ELSE LET row == Head(rows)
             known == \E i \in 1..Len(acc) : acc[i].day = row.Day
             acc2 == IF known
                     THEN [i \in 1..Len(acc) |->
                             IF acc[i].day = row.Day
                             THEN [acc[i] EXCEPT !.sessions = Append(@, row.session)]
                             ELSE acc[i]]
                     ELSE Append(acc, [day |-> row.Day, sessions |-> <<row.session>>])
         IN GroupByDay(Tail(rows), acc2)

\* mutant: the session is added whether or not somebody was assigned
emit_coverage_always(day_schedule, lab_time, assigned_proctors) ==
    Append(day_schedule, [lab_time |-> lab_time, proctors |-> assigned_proctors])

\* a session is added to the day's list only when somebody was assigned
emit_coverage(day_schedule, lab_time, assigned_proctors) ==
    IF assigned_proctors # <<>>
    THEN Append(day_schedule, [lab_time |-> lab_time, proctors |-> assigned_proctors])
    ELSE day_schedule

\* ------------------------------------------------------------------- state
VARIABLES pc, error, max_weekly_hours, proctor_weekly_hours,
          proctor_availabilities, lab_times, schedule, gen_day, gen_idx,
          opt_input, max_hours_per_week, proctor_stats, sorted_sessions, opt_idx,
          optimized_schedule, opt_pass, frames,
          proctors_df, lab_schedule_df, rendered

vars == <<pc, error, max_weekly_hours, proctor_weekly_hours,
          proctor_availabilities, lab_times, schedule, gen_day, gen_idx,
          opt_input, max_hours_per_week, proctor_stats, sorted_sessions, opt_idx,
          optimized_schedule, opt_pass, frames,
          proctors_df, lab_schedule_df, rendered>>

genArgs == <<proctor_availabilities, lab_times>>
genVars == <<proctor_weekly_hours, proctor_availabilities, lab_times, schedule, gen_day, gen_idx>>
optVars == <<opt_input, max_hours_per_week, proctor_stats, sorted_sessions, opt_idx,
             optimized_schedule, opt_pass>>
sysVars == <<proctors_df, lab_schedule_df, rendered>>

\* the frame of a generate_schedule call made by a thread: its arguments,
\* its local schedule and its place in the loops; alone records that no step
\* of another call fell between its entry and its return
IdleFrame == [pc |-> "idle", proctor_availabilities |-> <<>>, lab_times |-> <<>>,
              schedule |-> <<>>, gen_day |-> 0, gen_idx |-> 0, alone |-> TRUE]

\* ScheduleGenerator.__init__: the weekly ceiling is a constructor argument
Init ==
    /\ pc = "idle"
    /\ error = "none"
    /\ max_weekly_hours \in WeeklyChoices
    /\ proctor_weekly_hours = <<>>
    /\ proctor_availabilities = <<>>
    /\ lab_times = <<>>
    /\ schedule = <<>>
    /\ gen_day = 0
    /\ gen_idx = 0
    /\ opt_input = <<>>
    /\ max_hours_per_week = 0
    /\ proctor_stats = <<>>
    /\ sorted_sessions = <<>>
    /\ opt_idx = 0
    /\ optimized_schedule = <<>>
    /\ opt_pass = 0
    /\ frames = [t \in Threads |-> IdleFrame]
    /\ proctors_df = None
    /\ lab_schedule_df = None
    /\ rendered = <<>>

\* generate_schedule is entered: empty schedule per day, hours reset to 0
CallGenerate ==
    /\ pc = "idle"
    /\ \E proctors \in ProctorLists, table \in LabTables :
          /\ proctor_availabilities' = proctors
          /\ lab_times' = process_lab_times(table, <<>>)
          /\ proctor_weekly_hours' = initialize_proctor_hours(proctors)
    /\ schedule' = [i \in 1..Len(lab_times') |-> [day |-> lab_times'[i].day, sessions |-> <<>>]]
    /\ gen_day' = 1
    /\ gen_idx' = 1
    /\ pc' = IF lab_times' = <<>> THEN "generated" ELSE "generating"
    /\ UNCHANGED <<error, max_weekly_hours, optVars, frames, sysVars>>

\* one iteration of the session loop of _generate_day_schedule; after the
\* last session of the last day generate_schedule returns the schedule
GenSession ==
    /\ pc = "generating"
    /\ gen_day <= Len(lab_times)
    /\ LET day == lab_times[gen_day].day
           day_sessions == sorted_by_start(lab_times[gen_day].sessions)
           lab_session == day_sessions[gen_idx]
           lab_slot == Slot(lab_session.start, lab_session.end)
           last == gen_idx = Len(day_sessions)
           after == IF last /\ gen_day = Len(lab_times) THEN "generated" ELSE "generating"
           r == assign_proctors_to_session(proctor_weekly_hours, max_weekly_hours,
                                           lab_slot, proctor_availabilities, day)
       IN IF duration_hours(lab_slot) < min_shift_duration
          THEN /\ UNCHANGED <<schedule, proctor_weekly_hours, error>>
               /\ pc' = after
               /\ gen_day' = IF last THEN gen_day + 1 ELSE gen_day
               /\ gen_idx' = IF last THEN 1 ELSE gen_idx + 1
          ELSE IF ~r.ok
          THEN /\ pc' = "generate_failed"
               /\ error' = "TypeError"
               /\ proctor_weekly_hours' = r.hours
               /\ UNCHANGED <<schedule, gen_day, gen_idx>>
          ELSE /\ proctor_weekly_hours' = r.hours
               /\ schedule' = [schedule EXCEPT ![gen_day].sessions =
                                  emit_coverage(@, lab_session, r.selected)]
               /\ pc' = after
               /\ error' = error
               /\ gen_day' = IF last THEN gen_day + 1 ELSE gen_day
               /\ gen_idx' = IF last THEN 1 ELSE gen_idx + 1
    /\ UNCHANGED <<max_weekly_hours, genArgs, optVars, frames, sysVars>>

\* mutant: the stats of an earlier call are kept, hours included
EnterOptimize_stats_kept(sched, max_hours) ==
    /\ opt_input' = sched
    /\ max_hours_per_week' = max_hours
    /\ proctor_stats' = IF proctor_stats = <<>> THEN initialize_proctor_stats(sched)
                                                ELSE proctor_stats
    /\ optimized_schedule' = [i \in 1..Len(sched) |-> [day |-> sched[i].day, sessions |-> <<>>]]
    /\ sorted_sessions' = sort_sessions(sched)
    /\ opt_idx' = 1
    /\ opt_pass' = opt_pass + 1
    /\ pc' = IF sorted_sessions' = <<>> THEN "optimized" ELSE "optimizing"
    /\ UNCHANGED <<error, max_weekly_hours, genVars, frames, sysVars>>

\* optimize_schedule is entered: stats from the schedule, empty result per
\* day, the sessions sorted by (day, start)
EnterOptimize(sched, max_hours) ==
    /\ opt_input' = sched
    /\ max_hours_per_week' = max_hours
    /\ proctor_stats' = initialize_proctor_stats(sched)
    /\ optimized_schedule' = [i \in 1..Len(sched) |-> [day |-> sched[i].day, sessions |-> <<>>]]
    /\ sorted_sessions' = sort_sessions(sched)
    /\ opt_idx' = 1
    /\ opt_pass' = opt_pass + 1
    /\ pc' = IF sorted_sessions' = <<>> THEN "optimized" ELSE "optimizing"
    /\ UNCHANGED <<error, max_weekly_hours, genVars, frames, sysVars>>

\* the optimizer is given the schedule the generator returned
CallOptimize ==
    /\ pc = "generated"
    /\ EnterOptimize(schedule, max_weekly_hours)

\* the optimizer is given a schedule made by hand
CallOptimizeDirect ==
    /\ pc = "idle"
    /\ \E stars \in [NameSet -> BOOLEAN], n \in 0..MaxSessions :
          \E table \in [1..n -> SessionRows(stars)] :
             /\ TotalListed(table) <= MaxListed
             /\ EnterOptimize(GroupByDay(table, <<>>), max_weekly_hours)

\* the optimizer is given the schedule it returned, with the same parameters
CallOptimizeAgain ==
    /\ pc = "optimized"
    /\ opt_pass < MaxPasses
    /\ EnterOptimize(optimized_schedule, max_hours_per_week)

\* one iteration of the session loop of optimize_schedule; after the last
\* session optimize_schedule returns the optimized schedule
OptSession ==
    /\ pc = "optimizing"
    /\ opt_idx <= Len(sorted_sessions)
    /\ LET day == sorted_sessions[opt_idx].day
           session == sorted_sessions[opt_idx].session
           r == find_best_proctors(session, session.proctors, proctor_stats, max_hours_per_week)
           dayPos == CHOOSE i \in 1..Len(optimized_schedule) : optimized_schedule[i].day = day
       IN IF ~r.ok
          THEN /\ pc' = "optimize_failed"
               /\ error' = "TypeError"
               /\ UNCHANGED <<proctor_stats, optimized_schedule, opt_idx>>
          ELSE /\ pc' = IF opt_idx = Len(sorted_sessions) THEN "optimized" ELSE "optimizing"
               /\ error' = error
               /\ opt_idx' = opt_idx + 1
               /\ optimized_schedule' = [optimized_schedule EXCEPT ![dayPos].sessions =
                                            emit_coverage(@, session.lab_time, r.val)]
               /\ proctor_stats' = IF r.val # <<>>
                                   THEN update_proctor_hours(r.val, proctor_stats)
                                   ELSE proctor_stats
    /\ UNCHANGED <<max_weekly_hours, genVars, opt_input, max_hours_per_week, sorted_sessions,
                   opt_pass, frames, sysVars>>

\* load_data: both tables are read and kept, then validated
load_data ==
    /\ pc = "idle"
    /\ max_weekly_hours = default_max_weekly_hours
    /\ proctors_df = None
    /\ \E n \in 0..MaxRows, table \in SystemLabTables :
          \E rows \in [1..n -> SystemProctorRows] :
             /\ proctors_df' = DataFrame(rows)
             /\ lab_schedule_df' = DataFrame(table)
             /\ pc' = IF validate_data(rows) THEN "loaded" ELSE "load_failed"
             /\ error' = IF validate_data(rows) THEN error ELSE "ValueError"
    /\ UNCHANGED <<max_weekly_hours, genVars, optVars, frames, rendered>>

\* ProctorSchedulingSystem.generate_schedule up to the entry of the
\* generator: ValueError without data, otherwise the tables are processed
\* and generate_schedule of the generator reads proctor['Name'] of every
\* record it was handed
SystemGenerate ==
    /\ pc \in {"idle", "loaded", "load_failed"}
    /\ max_weekly_hours = default_max_weekly_hours
    /\ IF proctors_df = None \/ lab_schedule_df = None
       THEN /\ pc' = "system_failed"
            /\ error' = "ValueError"
            /\ UNCHANGED genVars
       ELSE LET proctors == process_proctor_availabilities(proctors_df.rows)
                labs == process_lab_times(lab_schedule_df.rows, <<>>)
            IN /\ proctor_availabilities' = proctors
               /\ lab_times' = labs
               /\ schedule' = [i \in 1..Len(labs) |-> [day |-> labs[i].day, sessions |-> <<>>]]
               /\ IF \A i \in 1..Len(proctors) : "Name" \in DOMAIN proctors[i]
                  THEN /\ proctor_weekly_hours' = initialize_proctor_hours(proctors)
                       /\ gen_day' = 1
                       /\ gen_idx' = 1
                       /\ pc' = IF labs = <<>> THEN "generated" ELSE "generating"
                       /\ error' = "none"
                  ELSE /\ pc' = "generate_failed"
                       /\ error' = "KeyError"
                       /\ UNCHANGED <<proctor_weekly_hours, gen_day, gen_idx>>
    /\ UNCHANGED <<max_weekly_hours, optVars, frames, sysVars>>

\* the rest of ProctorSchedulingSystem.generate_schedule: the optimizer's
\* schedule is rendered and the text returned
SystemPresent ==
    /\ pc = "optimized"
    /\ proctors_df # None
    /\ opt_pass = 1
    /\ rendered' = format_schedule(optimized_schedule)
    /\ pc' = "presented"
    /\ UNCHANGED <<error, max_weekly_hours, genVars, optVars, frames, proctors_df, lab_schedule_df>>

Next ==
    \/ load_data
    \/ SystemGenerate
    \/ SystemPresent
    \/ CallGenerate
    \/ GenSession
    \/ CallOptimize
    \/ CallOptimizeDirect
    \/ CallOptimizeAgain
    \/ OptSession

Spec == Init /\ [][Next]_vars

\* ------------------------------------ two calls on one ScheduleGenerator
\* mutant: a proctor_weekly_hours dict that is already there is kept
ThreadCallGenerate_hours_kept(t) ==
    /\ frames[t].pc = "idle"
    /\ \E proctors \in ThreadProctorLists, table \in ThreadLabTables :
          LET labs == process_lab_times(table, <<>>)
              busy == \E u \in Threads : frames[u].pc = "generating"
          IN /\ proctor_weekly_hours' = IF proctor_weekly_hours = <<>>
                                         THEN initialize_proctor_hours(proctors)
                                         ELSE proctor_weekly_hours
             /\ frames' = [u \in Threads |->
                   IF u = t
                   THEN [pc |-> IF labs = <<>> THEN "returned" ELSE "generating",
                         proctor_availabilities |-> proctors,
                         lab_times |-> labs,
                         schedule |-> [i \in 1..Len(labs) |-> [day |-> labs[i].day, sessions |-> <<>>]],
                         gen_day |-> 1, gen_idx |-> 1, alone |-> ~busy]
                   ELSE IF frames[u].pc = "generating" THEN [frames[u] EXCEPT !.alone = FALSE]
                   ELSE frames[u]]
    /\ UNCHANGED <<pc, error, max_weekly_hours, genArgs, schedule, gen_day, gen_idx, optVars, sysVars>>

\* a thread enters generate_schedule: the call replaces the instance's
\* proctor_weekly_hours dict, whatever another call has put there
ThreadCallGenerate(t) ==
    /\ frames[t].pc = "idle"
    /\ \E proctors \in ThreadProctorLists, table \in ThreadLabTables :
          LET labs == process_lab_times(table, <<>>)
              busy == \E u \in Threads : frames[u].pc = "generating"
          IN /\ proctor_weekly_hours' = initialize_proctor_hours(proctors)
             /\ frames' = [u \in Threads |->
                   IF u = t
                   THEN [pc |-> IF labs = <<>> THEN "returned" ELSE "generating",
                         proctor_availabilities |-> proctors,
                         lab_times |-> labs,
                         schedule |-> [i \in 1..Len(labs) |-> [day |-> labs[i].day, sessions |-> <<>>]],
                         gen_day |-> 1, gen_idx |-> 1, alone |-> ~busy]
                   ELSE IF frames[u].pc = "generating" THEN [frames[u] EXCEPT !.alone = FALSE]
                   ELSE frames[u]]
    /\ UNCHANGED <<pc, error, max_weekly_hours, genArgs, schedule, gen_day, gen_idx, optVars, sysVars>>

\* one iteration of the session loop of _generate_day_schedule in thread t,
\* on the hours dict the instance holds at that moment
ThreadGenSession(t) ==
    /\ frames[t].pc = "generating"
    /\ LET f == frames[t]
           day == f.lab_times[f.gen_day].day
           day_sessions == sorted_by_start(f.lab_times[f.gen_day].sessions)
           lab_session == day_sessions[f.gen_idx]
           lab_slot == Slot(lab_session.start, lab_session.end)
           last == f.gen_idx = Len(day_sessions)
           after == IF last /\ f.gen_day = Len(f.lab_times) THEN "returned" ELSE "generating"
           moved == [f EXCEPT !.pc = after,
                              !.gen_day = IF last THEN f.gen_day + 1 ELSE f.gen_day,
                              !.gen_idx = IF last THEN 1 ELSE f.gen_idx + 1]
           r == assign_proctors_to_session(proctor_weekly_hours, max_weekly_hours,
                                           lab_slot, f.proctor_availabilities, day)
       IN IF duration_hours(lab_slot) < min_shift_duration
          THEN /\ frames' = [frames EXCEPT ![t] = moved]
               /\ UNCHANGED proctor_weekly_hours
          ELSE IF ~r.ok
          THEN /\ frames' = [frames EXCEPT ![t].pc = "failed"]
               /\ proctor_weekly_hours' = r.hours
          ELSE /\ frames' = [frames EXCEPT ![t] =
                                [moved EXCEPT !.schedule[f.gen_day].sessions =
                                                 emit_coverage(@, lab_session, r.selected)]]
               /\ proctor_weekly_hours' = r.hours
    /\ UNCHANGED <<pc, error, max_weekly_hours, genArgs, schedule, gen_day, gen_idx, optVars, sysVars>>

NextThreads == \E t \in Threads : ThreadCallGenerate(t) \/ ThreadGenSession(t)

SpecThreads == Init /\ [][NextThreads]_vars

\* ================================================================ properties
\* the session entries of a schedule, each with its day
Coverages(sched) ==
    UNION {{[day |-> sched[i].day, cov |-> sched[i].sessions[j]] :
               j \in 1..Len(sched[i].sessions)} : i \in 1..Len(sched)}

\* the run went through generate_schedule (not a hand-made schedule)
Pipeline == proctor_availabilities # <<>>
GenReturned == Pipeline /\ pc \in {"generated", "optimizing", "optimized", "optimize_failed"}
DirectRun == ~Pipeline /\ pc # "idle"

\* every interval of the generator's input has start <= end
InputsWellFormed ==
    /\ \A i \in 1..Len(lab_times) : \A j \in 1..Len(lab_times[i].sessions) :
          lab_times[i].sessions[j].start <= lab_times[i].sessions[j].end
    /\ \A i \in 1..Len(proctor_availabilities) : \A d \in DayNames :
          \A k \in 1..Len(proctor_availabilities[i].availability[d]) :
             proctor_availabilities[i].availability[d][k].start
                <= proctor_availabilities[i].availability[d][k].end

RECURSIVE AssignedTotal(_, _)
AssignedTotal(listed, name) ==
    IF listed = <<>> THEN 0
    ELSE (IF Head(listed).Name = name
          THEN Head(listed).assigned_time.end - Head(listed).assigned_time.start
          ELSE 0) + AssignedTotal(Tail(listed), name)

\* C1: after generate_schedule returns, on input with start <= end intervals
\* no proctor's assigned overlaps add up to more than max_weekly_hours
C1_WeeklyCeiling ==
    (GenReturned /\ InputsWellFormed) =>
        \A n \in NameSet : AssignedTotal(ScheduleAssignments(schedule), n) <= max_weekly_hours

\* C2: no session of the schedule generate_schedule returns lists a proctor
\* name twice
C2_NoRepeatedName ==
    GenReturned =>
        \A c \in Coverages(schedule) : \A i, j \in 1..Len(c.cov.proctors) :
            i # j => c.cov.proctors[i].Name # c.cov.proctors[j].Name

\* C3: every session of a schedule built by generate_schedule or by
\* optimize_schedule has at most 2 assignments
C3_AtMostTwo ==
    \A c \in Coverages(schedule) \cup Coverages(optimized_schedule) : Len(c.cov.proctors) <= 2

\* the optimizer returned, and a session that listed 3 proctors came out with 2
C3_Witness ==
    /\ pc = "optimized"
    /\ \E c \in Coverages(opt_input), o \in Coverages(optimized_schedule) :
          /\ Len(c.cov.proctors) = 3
          /\ o.day = c.day
          /\ o.cov.lab_time = c.cov.lab_time
          /\ Len(o.cov.proctors) = 2

\* C4: every assignment lies within its session, and is the common part of
\* the session slot and one availability interval of that proctor on that
\* day; the same holds of the schedule the optimizer makes of it
InnerBound(a, b) ==
    Slot(IF a.start >= b.start THEN a.start ELSE b.start, IF a.end <= b.end THEN a.end ELSE b.end)

AssignmentFromAvailability(c) ==
    \A i \in 1..Len(c.cov.proctors) :
        LET a == c.cov.proctors[i]
        IN /\ a.assigned_time.start >= c.cov.lab_time.start
           /\ a.assigned_time.end <= c.cov.lab_time.end
           /\ \E p \in 1..Len(proctor_availabilities) :
                 /\ proctor_availabilities[p].Name = a.Name
                 /\ \E k \in 1..Len(proctor_availabilities[p].availability[c.day]) :
                       a.assigned_time =
                          InnerBound(c.cov.lab_time, proctor_availabilities[p].availability[c.day][k])

C4_AssignedWithinSession ==
    /\ \A c \in Coverages(schedule) : AssignmentFromAvailability(c)
    /\ Pipeline => \A c \in Coverages(optimized_schedule) : AssignmentFromAvailability(c)

\* the optimizer returned a session of the generator whose proctor works only
\* a part of the session
C4_Witness ==
    /\ Pipeline
    /\ pc = "optimized"
    /\ \E c \in Coverages(optimized_schedule) : \E i \in 1..Len(c.cov.proctors) :
          /\ c.cov.proctors[i].assigned_time # c.cov.lab_time
          /\ c \in Coverages(schedule)

\* C5: a session with start <= end that is shorter than the minimum shift is
\* in no schedule built by generate_schedule or optimize_schedule
TooShort(slot) == slot.start <= slot.end /\ slot.end - slot.start < min_shift_duration

C5_ShortSessionsAbsent ==
    \A c \in Coverages(schedule) \cup Coverages(optimized_schedule) : ~TooShort(c.cov.lab_time)

\* the optimizer returned for a hand-made schedule that lists proctors for a
\* session that is too short
C5_Witness ==
    /\ DirectRun
    /\ pc = "optimized"
    /\ \E c \in Coverages(opt_input) : TooShort(c.cov.lab_time) /\ c.cov.proctors # <<>>


\* ---- the session a step of either loop works on, seen from the state before
GenStepDone == pc = "generating" /\ pc' \in {"generating", "generated"}
OptStepDone == pc = "optimizing" /\ pc' \in {"optimizing", "optimized"}

CurrentDay == lab_times[gen_day].day
CurrentLabSession == sorted_by_start(lab_times[gen_day].sessions)[gen_idx]
CurrentOptSession == sorted_sessions[opt_idx].session

\* proctor p has an availability interval whose overlap with the current
\* session passes the duration and weekly-hours tests
AdmissibleNow(p) ==
    /\ duration_hours(CurrentLabSession) >= min_shift_duration
    /\ \E k \in 1..Len(p.availability[CurrentDay]) :
          LET o == InnerBound(CurrentLabSession, p.availability[CurrentDay][k])
              d == (o.end - o.start) % DayUnits
          IN /\ CurrentLabSession.start <= p.availability[CurrentDay][k].end
             /\ CurrentLabSession.end >= p.availability[CurrentDay][k].start
             /\ d >= min_shift_duration
             /\ d <= max_shift_duration
             /\ proctor_weekly_hours[p.Name] + d <= max_weekly_hours

OptAdmissibleNow(a) ==
    LET d == (CurrentOptSession.lab_time.end - CurrentOptSession.lab_time.start) % DayUnits
    IN /\ d >= min_shift_duration
       /\ d <= max_shift_duration
       /\ proctor_stats[a.Name].hours + d <= max_hours_per_week

\* the proctors the step put on the session (none when no entry was added)
NewlyAssigned(before, after) ==
    IF \E i \in 1..Len(before) : Len(after[i].sessions) > Len(before[i].sessions)
    THEN LET i == CHOOSE i \in 1..Len(before) : Len(after[i].sessions) > Len(before[i].sessions)
         IN after[i].sessions[Len(after[i].sessions)].proctors
    ELSE <<>>

Listed(ps, name) == \E i \in 1..Len(ps) : ps[i].Name = name
FirstPos(ps, name) == CHOOSE i \in 1..Len(ps) :
                         ps[i].Name = name /\ \A j \in 1..(i - 1) : ps[j].Name # name
StarBeforeOther(ps, starName, otherName) ==
    Listed(ps, otherName) =>
        Listed(ps, starName) /\ FirstPos(ps, starName) < FirstPos(ps, otherName)

C6_GeneratorStep ==
    GenStepDone =>
        \A i, j \in 1..Len(proctor_availabilities) :
            LET st == proctor_availabilities[i]
                ot == proctor_availabilities[j]
            IN (/\ st.star /\ ~ot.star
                /\ AdmissibleNow(st) /\ AdmissibleNow(ot)
                /\ proctor_weekly_hours[st.Name] = proctor_weekly_hours[ot.Name]
                /\ AvailabilityCount(st) = AvailabilityCount(ot))
               => StarBeforeOther(NewlyAssigned(schedule, schedule'), st.Name, ot.Name)

C6_OptimizerStep ==
    OptStepDone =>
        \A i, j \in 1..Len(CurrentOptSession.proctors) :
            LET st == CurrentOptSession.proctors[i]
                ot == CurrentOptSession.proctors[j]
            IN (/\ st.star /\ ~ot.star
                /\ OptAdmissibleNow(st) /\ OptAdmissibleNow(ot)
                /\ proctor_stats[st.Name].hours = proctor_stats[ot.Name].hours
                /\ proctor_stats[st.Name].availability = proctor_stats[ot.Name].availability)
               => StarBeforeOther(NewlyAssigned(optimized_schedule, optimized_schedule'),
                                  st.Name, ot.Name)

\* C6: in both phases, of a star and a non-star candidate that are both
\* admissible for the session and have the same cumulative hours and the same
\* availability score, the non-star one is accepted only after the star one
C6_StarFirst == [][C6_GeneratorStep /\ C6_OptimizerStep]_vars

\* the first session the generator worked on went to the star Bob and then
\* to Alice, who is not a star, comes first in the input and lists as many
\* availability intervals
C6_Witness ==
    /\ GenReturned
    /\ Len(schedule) >= 1
    /\ Len(schedule[1].sessions) >= 1
    /\ LET first == CHOOSE j \in 1..Len(lab_times[1].sessions) :
                       \A k \in 1..Len(lab_times[1].sessions) :
                           lab_times[1].sessions[j].start <= lab_times[1].sessions[k].start
           c == schedule[1].sessions[1]
       IN /\ c.lab_time = lab_times[1].sessions[first]
          /\ Len(c.proctors) = 2
          /\ c.proctors[1].Name = "Bob" /\ c.proctors[1].star
          /\ c.proctors[2].Name = "Alice" /\ ~c.proctors[2].star
          /\ AvailabilityCount(proctor_availabilities[1]) = AvailabilityCount(proctor_availabilities[2])

NoEmptyCoverage(sched) == \A c \in Coverages(sched) : c.cov.proctors # <<>>

C7_GeneratorStep ==
    (pc = "generating" /\ \A i \in 1..Len(proctor_availabilities) :
                              ~AdmissibleNow(proctor_availabilities[i]))
        => (schedule' = schedule /\ error' = "none" /\ pc' # "generate_failed")

C7_OptimizerStep ==
    (pc = "optimizing" /\ \A i \in 1..Len(CurrentOptSession.proctors) :
                              ~OptAdmissibleNow(CurrentOptSession.proctors[i]))
        => (optimized_schedule' = optimized_schedule /\ error' = "none" /\ pc' # "optimize_failed")

\* C7: a session without an admissible candidate adds no entry and raises no
\* error, and every entry of either schedule has at least one assignment
C7_NoEmptyCoverage ==
    [][/\ C7_GeneratorStep
       /\ C7_OptimizerStep
       /\ NoEmptyCoverage(schedule')
       /\ NoEmptyCoverage(optimized_schedule')]_vars

\* generate_schedule returned without error and a session that is long
\* enough is missing from the schedule
C7_Witness ==
    /\ GenReturned
    /\ error = "none"
    /\ \E i \in 1..Len(lab_times) : \E j \in 1..Len(lab_times[i].sessions) :
          /\ duration_hours(lab_times[i].sessions[j]) >= min_shift_duration
          /\ \A c \in Coverages(schedule) :
                ~(c.day = lab_times[i].day /\ c.cov.lab_time = lab_times[i].sessions[j])

\* one session of 5 hours, and one availability interval in all, which
\* covers the session
C8_Scenario ==
    /\ Pipeline
    /\ Len(lab_times) = 1
    /\ Len(lab_times[1].sessions) = 1
    /\ LET s == lab_times[1].sessions[1]
       IN /\ s.start <= s.end
          /\ s.end - s.start = 10
          /\ max_shift_duration = 8
          /\ \E i \in 1..Len(proctor_availabilities) :
                LET p == proctor_availabilities[i]
                IN /\ Len(p.availability[lab_times[1].day]) = 1
                   /\ p.availability[lab_times[1].day][1].start <= s.start
                   /\ p.availability[lab_times[1].day][1].end >= s.end
                   /\ \A j \in 1..Len(proctor_availabilities) :
                         AvailabilityCount(proctor_availabilities[j]) = (IF j = i THEN 1 ELSE 0)

\* C8 as stated: in the scenario the session is in the output with zero proctors
C8_EmittedWithZeroProctors ==
    (GenReturned /\ C8_Scenario) =>
        schedule = <<[day |-> lab_times[1].day,
                      sessions |-> <<[lab_time |-> lab_times[1].sessions[1], proctors |-> <<>>]>>]>>

\* C8 amended: in the scenario the candidate is rejected and the session is
\* not in the output: the day's list is empty, nobody got hours, no error
C8_SessionAbsent ==
    (GenReturned /\ C8_Scenario) =>
        /\ schedule = <<[day |-> lab_times[1].day, sessions |-> <<>>]>>
        /\ \A n \in NameSet : proctor_weekly_hours[n] = 0
        /\ error = "none"

C8_Witness == pc = "generated" /\ C8_Scenario

\* two admissible entries of the current session have the same score and
\* come from two proctors, or from one proctor with two different overlaps
TieNow ==
    /\ duration_hours(CurrentLabSession) >= min_shift_duration
    /\ LET es == CandidateEntries(proctor_weekly_hours, max_weekly_hours, CurrentLabSession,
                                  proctor_availabilities, CurrentDay)
       IN \E i, j \in 1..Len(es) :
             /\ i < j
             /\ es[i].neg = es[j].neg
             /\ \/ es[i].proctor.Name # es[j].proctor.Name
                \/ es[i].overlap # es[j].overlap

\* C9: a session whose admissible candidates tie on the score is still
\* processed: generate_schedule does not fail
C9_TiesDoNotFail == [][(pc = "generating" /\ TieNow) => pc' # "generate_failed"]_vars

HasInvertedInterval ==
    /\ Pipeline
    /\ ~InputsWellFormed

\* C10: a run whose input has an interval with start > end does not return a
\* schedule and assigns nobody to such an interval
C10_InvalidIntervalFails ==
    HasInvertedInterval =>
        /\ ~GenReturned
        /\ \A c \in Coverages(schedule) : c.cov.lab_time.start <= c.cov.lab_time.end

\* C11: optimize_schedule adds nothing: every session of its output is a
\* session of its input on the same day, and each assignment of the output
\* session is an assignment the input lists for that session
C11_NeverAdds ==
    \A o \in Coverages(optimized_schedule) :
        \E c \in Coverages(opt_input) :
            /\ c.day = o.day
            /\ c.cov.lab_time = o.cov.lab_time
            /\ \A i \in 1..Len(o.cov.proctors) :
                  \E j \in 1..Len(c.cov.proctors) : c.cov.proctors[j] = o.cov.proctors[i]

\* the optimizer returned two sessions of one day, one that lists only Alice
\* and one that lists only Bob, and each came out with its own proctor
C11_Witness ==
    /\ pc = "optimized"
    /\ \E a, b \in Coverages(optimized_schedule) :
          /\ a.day = b.day
          /\ a.cov.lab_time # b.cov.lab_time
          /\ Len(a.cov.proctors) = 1 /\ a.cov.proctors[1].Name = "Alice"
          /\ Len(b.cov.proctors) = 1 /\ b.cov.proctors[1].Name = "Bob"
          /\ a \in Coverages(opt_input)
          /\ b \in Coverages(opt_input)

\* C12: no session whose lab_time duration is below min_shift_duration or
\* above max_shift_duration is in the optimizer's output, whatever the input
\* listed for it
C12_OutOfBoundsDropped ==
    \A o \in Coverages(optimized_schedule) :
        /\ duration_hours(o.cov.lab_time) >= min_shift_duration
        /\ duration_hours(o.cov.lab_time) <= max_shift_duration

\* the generator covered a session longer than max_shift_duration with an
\* overlap inside the bounds, and the optimizer returned
C12_Witness ==
    /\ Pipeline
    /\ pc = "optimized"
    /\ \E c \in Coverages(schedule) :
          /\ duration_hours(c.cov.lab_time) > max_shift_duration
          /\ \E i \in 1..Len(c.cov.proctors) :
                /\ duration_hours(c.cov.proctors[i].assigned_time) >= min_shift_duration
                /\ duration_hours(c.cov.proctors[i].assigned_time) <= max_shift_duration

\* the second call of optimize_schedule, made on the schedule the first call
\* returned, has returned: opt_input is optimize_schedule(S) and
\* optimized_schedule is optimize_schedule(optimize_schedule(S))
SecondPassReturned == opt_pass = 2 /\ pc = "optimized"

\* the first call returned a single session in all, within the duration
\* bounds and the weekly ceiling, that lists Bob and then Alice, both stars
\* or both not
BobThenAlice ==
    /\ Len(sorted_sessions) = 1
    /\ LET c == sorted_sessions[1].session
       IN /\ Len(c.proctors) = 2
          /\ c.proctors[1].Name = "Bob"
          /\ c.proctors[2].Name = "Alice"
          /\ c.proctors[1].star = c.proctors[2].star
          /\ duration_hours(c.lab_time) >= min_shift_duration
          /\ duration_hours(c.lab_time) <= max_shift_duration
          /\ duration_hours(c.lab_time) <= max_hours_per_week

\* C13: optimize_schedule is not idempotent: whenever the first call returns
\* such a session, the second call returns it with Alice before Bob, which
\* is not the schedule it was given
C13_NotIdempotent ==
    (SecondPassReturned /\ BobThenAlice) =>
        /\ optimized_schedule # opt_input
        /\ \A o \in Coverages(optimized_schedule) :
              o.cov.proctors = <<sorted_sessions[1].session.proctors[2],
                                 sorted_sessions[1].session.proctors[1]>>
        /\ Coverages(optimized_schedule) # {}

\* the second call returned a schedule that differs from the one the first
\* call returned
C13_Witness == SecondPassReturned /\ BobThenAlice /\ optimized_schedule # opt_input

\* ---- generate_schedule run from entry to return with nothing in between:
\* the hours start at 0 and only this call changes them
RECURSIVE RunAloneDay(_, _, _, _, _, _)
RunAloneDay(hours, weekly, proctors, day, sessions, acc) ==
    IF sessions = <<>> THEN [ok |-> TRUE, sessions |-> acc, hours |-> hours]
    ELSE LET lab_session == Head(sessions)
             r == assign_proctors_to_session(hours, weekly, lab_session, proctors, day)
         IN IF duration_hours(lab_session) < min_shift_duration
            THEN RunAloneDay(hours, weekly, proctors, day, Tail(sessions), acc)
            ELSE IF ~r.ok THEN [ok |-> FALSE, sessions |-> acc, hours |-> r.hours]
            ELSE RunAloneDay(r.hours, weekly, proctors, day, Tail(sessions),
                             emit_coverage(acc, lab_session, r.selected))

RECURSIVE RunAloneDays(_, _, _, _, _)
RunAloneDays(hours, weekly, proctors, labs, acc) ==
    IF labs = <<>> THEN [ok |-> TRUE, schedule |-> acc]
    ELSE LET d == RunAloneDay(hours, weekly, proctors, Head(labs).day,
                              sorted_by_start(Head(labs).sessions), <<>>)
         IN IF ~d.ok THEN [ok |-> FALSE, schedule |-> acc]
            ELSE RunAloneDays(d.hours, weekly, proctors, Tail(labs),
                              Append(acc, [day |-> Head(labs).day, sessions |-> d.sessions]))

RunAlone(proctors, labs, weekly) ==
    RunAloneDays(initialize_proctor_hours(proctors), weekly, proctors, labs, <<>>)

Returned(t) == frames[t].pc = "returned"

\* the two calls were made one after the other on the same instance
InSequence(t, u) ==
    /\ t # u
    /\ Returned(t) /\ Returned(u)
    /\ frames[t].alone /\ frames[u].alone

SameInput(t, u) ==
    /\ frames[t].proctor_availabilities = frames[u].proctor_availabilities
    /\ frames[t].lab_times = frames[u].lab_times

\* C14: two generate_schedule calls made in sequence on one instance with
\* the same proctors and sessions return equal schedules
C14_SameOutputOnRerun ==
    \A t, u \in Threads :
        (InSequence(t, u) /\ SameInput(t, u)) => frames[t].schedule = frames[u].schedule

\* with a ceiling of 3 h both calls, made in sequence on the same input,
\* returned a schedule in which somebody works 2.5 h
C14_Witness ==
    /\ InSequence(1, 2)
    /\ SameInput(1, 2)
    /\ max_weekly_hours = 6
    /\ Coverages(frames[1].schedule) # {}
    /\ Coverages(frames[2].schedule) # {}

\* C15: a generate_schedule call returns the schedule it returns when run
\* alone on its input, whatever steps of another call on the same instance
\* fall between its own
C15_NoInterference ==
    \A t \in Threads :
        Returned(t) =>
            LET a == RunAlone(frames[t].proctor_availabilities, frames[t].lab_times,
                              max_weekly_hours)
            IN a.ok /\ frames[t].schedule = a.schedule

\* the inputs of the two calls differ in the max_hours values and in nothing else
DifferOnlyInMaxHours(t, u) ==
    LET p == frames[t].proctor_availabilities
        q == frames[u].proctor_availabilities
    IN /\ frames[t].lab_times = frames[u].lab_times
       /\ Len(p) = Len(q)
       /\ \A i \in 1..Len(p) :
             /\ p[i].Name = q[i].Name
             /\ p[i].star = q[i].star
             /\ p[i].availability = q[i].availability
       /\ \E i \in 1..Len(p) : p[i].max_hours # q[i].max_hours

\* C19: two generate_schedule runs whose inputs differ only in the proctors'
\* max_hours values return equal schedules
C19_MaxHoursIgnored ==
    \A t, u \in Threads :
        (InSequence(t, u) /\ DifferOnlyInMaxHours(t, u)) =>
            frames[t].schedule = frames[u].schedule

\* one run gave Bob a max_hours of 1 h and the other 40 h, and both
\* schedules give Bob a session of 2.5 h
C19_Witness ==
    /\ InSequence(1, 2)
    /\ DifferOnlyInMaxHours(1, 2)
    /\ frames[1].proctor_availabilities[2].max_hours = 2
    /\ frames[2].proctor_availabilities[2].max_hours = 80
    /\ \E c \in Coverages(frames[1].schedule) : Listed(c.cov.proctors, "Bob")
    /\ \E c \in Coverages(frames[2].schedule) : Listed(c.cov.proctors, "Bob")

RECURSIVE CountName(_, _)
CountName(listed, name) ==
    IF listed = <<>> THEN 0
    ELSE (IF Head(listed).Name = name THEN 1 ELSE 0) + CountName(Tail(listed), name)

\* C16: when optimize_schedule accepts candidates for a session, the hours of
\* each accepted proctor grow by the duration of the session's lab_time, once
\* per acceptance, also when the assigned_time is shorter than the session
C16_HoursBySessionDuration ==
    [][OptStepDone =>
          \A n \in DOMAIN proctor_stats :
              proctor_stats'[n].hours =
                  proctor_stats[n].hours
                  + CountName(NewlyAssigned(optimized_schedule, optimized_schedule'), n)
                    * duration_hours(CurrentOptSession.lab_time)]_vars

\* ---- the candidates of the session the generator works on, scored with
\* the hours as they stand before the step
EntriesNow == CandidateEntries(proctor_weekly_hours, max_weekly_hours, CurrentLabSession,
                               proctor_availabilities, CurrentDay)
ScoreNow(name) ==
    LET p == CHOOSE i \in 1..Len(proctor_availabilities) : proctor_availabilities[i].Name = name
    IN calculate_priority_score(proctor_weekly_hours, max_weekly_hours, proctor_availabilities[p])

HighestScoring(es, acc) ==
    /\ Len(acc) = Min2(Len(es), 2)
    /\ \A i \in 1..Len(acc) :
          \E k \in 1..Len(es) : /\ es[k].proctor.Name = acc[i].Name
                                /\ es[k].overlap = acc[i].assigned_time
    /\ \A i, j \in 1..Len(acc) : i < j => ScoreNow(acc[i].Name) >= ScoreNow(acc[j].Name)
    /\ \A i \in 1..Len(acc) :
          Cardinality({k \in 1..Len(es) : 0 - es[k].neg > ScoreNow(acc[i].Name)})
             = Cardinality({j \in 1..Len(acc) : ScoreNow(acc[j].Name) > ScoreNow(acc[i].Name)})

\* C17: for each session generate_schedule processes, the accepted
\* candidates are admissible ones, they are listed in non-increasing score
\* order, and every admissible candidate with a strictly higher score than
\* an accepted one is accepted too
C17_HighestScoringAccepted ==
    [][(GenStepDone /\ duration_hours(CurrentLabSession) >= min_shift_duration) =>
          HighestScoring(EntriesNow, NewlyAssigned(schedule, schedule'))]_vars

\* the one session of the run had three admissible candidates or more, of
\* two proctors with different scores, and went to the higher-scoring
\* proctor first and to the other one second
C17_Witness ==
    /\ pc = "generated"
    /\ Len(lab_times) = 1
    /\ Len(lab_times[1].sessions) = 1
    /\ Len(schedule[1].sessions) = 1
    /\ LET zero == initialize_proctor_hours(proctor_availabilities)
           es == CandidateEntries(zero, max_weekly_hours, lab_times[1].sessions[1],
                                  proctor_availabilities, lab_times[1].day)
           acc == schedule[1].sessions[1].proctors
       IN /\ Len(es) >= 3
          /\ Len(acc) = 2
          /\ acc[1].Name # acc[2].Name
          /\ \E k \in 1..Len(es) : es[k].neg # es[1].neg

RECURSIVE AccumulatedHours(_, _)
AccumulatedHours(listed, name) ==
    IF listed = <<>> THEN 0
    ELSE (IF Head(listed).Name = name THEN duration_hours(Head(listed).assigned_time) ELSE 0)
         + AccumulatedHours(Tail(listed), name)

\* C18: for each session generate_schedule processes, the hours a proctor
\* was given in the sessions already processed in the run plus the overlap
\* the proctor is given now do not exceed max_weekly_hours
C18_EarlierHoursCount ==
    [][GenStepDone =>
          LET acc == NewlyAssigned(schedule, schedule')
          IN \A i \in 1..Len(acc) :
                AccumulatedHours(ScheduleAssignments(schedule), acc[i].Name)
                   + duration_hours(acc[i].assigned_time) <= max_weekly_hours]_vars

\* with a ceiling of 3 h the star Bob, who is available for two sessions of
\* 2.5 h, got the first one processed and was refused the second
C18_Witness ==
    /\ pc = "generated"
    /\ max_weekly_hours = 6
    /\ proctor_availabilities[2].star
    /\ proctor_weekly_hours["Bob"] = 5
    /\ CountName(ScheduleAssignments(schedule), "Bob") = 1
    /\ \E i, k \in 1..Len(lab_times) :
          \E j \in 1..Len(lab_times[i].sessions), l \in 1..Len(lab_times[k].sessions) :
             /\ <<i, j>> # <<k, l>>
             /\ \A x \in {<<i, j>>, <<k, l>>} :
                   LET lab == lab_times[x[1]].sessions[x[2]]
                       av == proctor_availabilities[2].availability[lab_times[x[1]].day]
                   IN /\ lab.end - lab.start = 5
                      /\ \E a \in 1..Len(av) : av[a].start <= lab.start /\ av[a].end >= lab.end

SortedByStart(sessions) ==
    \A i, j \in 1..Len(sessions) : i < j => sessions[i].lab_time.start <= sessions[j].lab_time.start

DayKeys(sched) == {sched[i].day : i \in 1..Len(sched)}

\* C20: in the schedules generate_schedule and optimize_schedule build, the
\* sessions of each day are in ascending order of lab_time.start, whatever
\* the order in the input, and the days are the days of the input
C20_SortedWithInputDays ==
    /\ \A i \in 1..Len(schedule) : SortedByStart(schedule[i].sessions)
    /\ \A i \in 1..Len(optimized_schedule) : SortedByStart(optimized_schedule[i].sessions)
    /\ (Pipeline /\ pc # "idle") =>
          /\ DayKeys(schedule) = {lab_times[i].day : i \in 1..Len(lab_times)}
          /\ Len(schedule) = Len(lab_times)
    /\ opt_pass >= 1 =>
          /\ DayKeys(optimized_schedule) = DayKeys(opt_input)
          /\ Len(optimized_schedule) = Len(opt_input)

\* the optimizer was given a day whose two sessions are listed later start
\* first, and returned both
C20_Witness ==
    /\ DirectRun
    /\ pc = "optimized"
    /\ \E i \in 1..Len(opt_input) :
          /\ Len(opt_input[i].sessions) = 2
          /\ opt_input[i].sessions[1].lab_time.start > opt_input[i].sessions[2].lab_time.start
          /\ \E k \in 1..Len(optimized_schedule) :
                /\ optimized_schedule[k].day = opt_input[i].day
                /\ Len(optimized_schedule[k].sessions) = 2

\* no session of the schedule lists a name twice, and every assigned_time
\* is an interval inside its session's lab_time
NamesOnceAndWithin(sched) ==
    \A c \in Coverages(sched) :
        /\ \A i, j \in 1..Len(c.cov.proctors) :
              i # j => c.cov.proctors[i].Name # c.cov.proctors[j].Name
        /\ \A i \in 1..Len(c.cov.proctors) :
              LET a == c.cov.proctors[i].assigned_time
              IN /\ c.cov.lab_time.start <= a.start
                 /\ a.start <= a.end
                 /\ a.end <= c.cov.lab_time.end

\* C21: for an input schedule in which no session lists a name twice and
\* every assigned_time lies within its session, the assigned_time durations
\* of each proctor in the schedule optimize_schedule builds add up to at
\* most max_hours_per_week
C21_OptimizerWeeklySum ==
    (opt_pass >= 1 /\ NamesOnceAndWithin(opt_input)) =>
        \A n \in NameSet :
            AccumulatedHours(ScheduleAssignments(optimized_schedule), n) <= max_hours_per_week

\* with a ceiling of 3 h the optimizer returned for a hand-made schedule
\* that lists Alice in two sessions within the duration bounds, once with an
\* assigned_time shorter than the session, and kept her in one of them
C21_Witness ==
    /\ DirectRun
    /\ pc = "optimized"
    /\ opt_pass = 1
    /\ max_hours_per_week = 6
    /\ NamesOnceAndWithin(opt_input)
    /\ Len(sorted_sessions) = 2
    /\ \A k \in 1..2 :
          /\ Listed(sorted_sessions[k].session.proctors, "Alice")
          /\ duration_hours(sorted_sessions[k].session.lab_time) >= min_shift_duration
          /\ duration_hours(sorted_sessions[k].session.lab_time) <= max_shift_duration
    /\ \E i \in 1..Len(sorted_sessions[1].session.proctors) :
          LET a == sorted_sessions[1].session.proctors[i]
          IN a.Name = "Alice" /\ a.assigned_time # sorted_sessions[1].session.lab_time
    /\ CountName(ScheduleAssignments(optimized_schedule), "Alice") = 1

AssignmentSet(cov) == {cov.proctors[i] : i \in 1..Len(cov.proctors)}

\* C22: the schedule a second call of optimize_schedule returns has, day by
\* day, the sessions of the schedule it was given, in the same order, each
\* with the same assignments in some order; nothing is dropped
C22_SecondPassKeepsAll ==
    SecondPassReturned =>
        /\ Len(optimized_schedule) = Len(opt_input)
        /\ \A i \in 1..Len(opt_input) :
              /\ optimized_schedule[i].day = opt_input[i].day
              /\ Len(optimized_schedule[i].sessions) = Len(opt_input[i].sessions)
              /\ \A j \in 1..Len(opt_input[i].sessions) :
                    LET before == opt_input[i].sessions[j]
                        after == optimized_schedule[i].sessions[j]
                    IN /\ after.lab_time = before.lab_time
                       /\ Len(after.proctors) = Len(before.proctors)
                       /\ AssignmentSet(after) = AssignmentSet(before)

\* with a ceiling of 3 h the second call was given two sessions with
\* assignments and returned both
C22_Witness ==
    /\ SecondPassReturned
    /\ max_hours_per_week = 6
    /\ Len(sorted_sessions) = 2
    /\ Cardinality(Coverages(optimized_schedule)) = 2
    /\ \E n \in DOMAIN proctor_stats : proctor_stats[n].hours > 0


\* ---------------------------------------------------------------- C23
\* generate_schedule of the system was called on loaded data that passed
\* validation and holds at least one proctor row
SystemRanOnValidData ==
    /\ proctors_df # None
    /\ lab_schedule_df # None
    /\ pc \notin {"loaded", "load_failed"}
    /\ validate_data(proctors_df.rows)
    /\ Len(proctors_df.rows) >= 1

\* C23: once the system's generate_schedule was called on validated data
\* with at least one proctor, every record handed to the generator has the
\* key Name the generator reads, nothing was raised, and the text returned is
\* the rendering of the optimizer's schedule
C23_PipelineReturns ==
    SystemRanOnValidData =>
        /\ \A i \in 1..Len(proctor_availabilities) : "Name" \in DOMAIN proctor_availabilities[i]
        /\ error = "none"
        /\ pc = "presented" => rendered = format_schedule(optimized_schedule)

\* the run that the system completes: no proctor row, one lab session
SystemReturnedText ==
    /\ pc = "presented"
    /\ Len(proctors_df.rows) = 0
    /\ Len(lab_schedule_df.rows) = 1
    /\ rendered = <<[line |-> "day", day |-> "Monday"]>>
====
